---- MODULE Spec2Model ----
(***************************************************************************)
(* A model of the FastAPI retrieval-augmented question-answering service:  *)
(* the HTTP layer of app/main.py (startup, /upload/, /query/, /status/),   *)
(* the index builder of app/services/index_creator.py, the document loader *)
(* of app/services/document_loader.py and the query engine of              *)
(* app/services/query_engine.py.                                           *)
(*                                                                         *)
(* Text (file names, questions, answers) is a sequence of one-character    *)
(* strings, so that the code's substring tests, splits and replacements    *)
(* are computed character by character.                                    *)
(*                                                                         *)
(* The handlers are "async def" bodies without a single await: the event   *)
(* loop runs each of them to completion, so each is one atomic action.     *)
(* What the environment decides (an I/O error, a parse error, a model      *)
(* error) is a nondeterministic choice: an operator that models code with  *)
(* such choices yields the SET of its possible outcomes.                   *)
(***************************************************************************)
EXTENDS Integers, Sequences, FiniteSets

VARIABLES
    dir,           \* DATA_DIR: the set of file names it holds
    storage,       \* STORAGE_DIR: the two persisted artifacts, each <<>> (absent) or <<content>>
    query_engine,  \* the module-global query_engine of main.py
    now,           \* the wall clock, in seconds
    last,          \* the last HTTP exchange (or startup): request, response, what it did
    fmt,           \* a run of process_response: the text, once and twice processed
    qe,            \* a run of QueryEngine.query: the question and what the engine received
    build          \* a run of create_index: its arguments and what it did

vars == <<dir, storage, query_engine, now, last, fmt, qe, build>>

(***************************************************************************)
(* Bounds.                                                                 *)
(***************************************************************************)
\* The clock runs from 0 to MaxClock seconds.
MaxClock == 1
\* The number of files of one upload request.
MaxFiles == 2
\* The length of a text handed to process_response.
MaxText == 4
\* The number of fragments a question is made of.
MaxFragments == 2

(***************************************************************************)
(* Text helpers: Python's str operations on sequences of characters.       *)
(***************************************************************************)
Range(s) == {s[i] : i \in 1..Len(s)}

\* str.endswith
EndsWith(s, suffix) ==
    /\ Len(suffix) <= Len(s)
    /\ SubSeq(s, Len(s) - Len(suffix) + 1, Len(s)) = suffix

\* str.startswith at position i
MatchAt(s, i, sub) ==
    /\ i + Len(sub) - 1 <= Len(s)
    /\ SubSeq(s, i, i + Len(sub) - 1) = sub

\* the operator "sub in s" on strings
Contains(sub, s) == \E i \in 1..(Len(s) + 1) : MatchAt(s, i, sub)

\* The elements of a set of numbers, in increasing order
Sorted(S) == [k \in 1..Cardinality(S) |->
                 CHOOSE x \in S : Cardinality({y \in S : y < x}) = k - 1]

\* The concatenation of parts[lo..hi]
RECURSIVE ConcatRange(_, _, _)
ConcatRange(parts, lo, hi) ==
    IF lo > hi THEN <<>>
    ELSE IF lo = hi THEN parts[lo]
    ELSE LET mid == (lo + hi) \div 2
         IN  ConcatRange(parts, lo, mid) \o ConcatRange(parts, mid + 1, hi)

Concat(parts) == ConcatRange(parts, 1, Len(parts))

\* The places where str.split(sep) cuts: the occurrences of sep from the
\* left, none overlapping the one before it
RECURSIVE Cuts(_, _, _)
Cuts(s, sep, from) ==
    LET found == {i \in from..Len(s) : MatchAt(s, i, sep)}
    IN  IF found = {} THEN {}
        ELSE LET first == CHOOSE i \in found : \A j \in found : i <= j
             IN  {first} \cup Cuts(s, sep, first + Len(sep))

\* str.split(sep) for a non-empty separator: pieces may be empty
Split(s, sep) ==
    LET cuts == Sorted(Cuts(s, sep, 1))
        n == Len(cuts)
    IN  [k \in 1..(n + 1) |->
            SubSeq(s, IF k = 1 THEN 1 ELSE cuts[k - 1] + Len(sep),
                      IF k = n + 1 THEN Len(s) ELSE cuts[k] - 1)]

\* sep.join(parts)
Join(parts, sep) ==
    Concat([k \in 1..(2 * Len(parts) - 1) |->
               IF k % 2 = 1 THEN parts[(k + 1) \div 2] ELSE sep])

\* str.count of a one-character string
Count(s, ch) == Cardinality({i \in 1..Len(s) : s[i] = ch})

Digit(n) == CASE n = 0 -> "0" [] n = 1 -> "1" [] n = 2 -> "2" [] n = 3 -> "3"
              [] n = 4 -> "4" [] n = 5 -> "5" [] n = 6 -> "6" [] n = 7 -> "7"
              [] n = 8 -> "8" [] n = 9 -> "9"

(***************************************************************************)
(* File names.                                                             *)
(***************************************************************************)
DotPdf == <<".", "p", "d", "f">>

\* The file names a client uploads: two PDFs, the name of one ending with the
\* name of the other, and a file that is no PDF.
A_PDF == <<"a", ".", "p", "d", "f">>
BA_PDF == <<"b", "a", ".", "p", "d", "f">>
N_TXT == <<"n", ".", "t", "x", "t">>
FileNames == {A_PDF, BA_PDF, N_TXT}

\* datetime.now().strftime("%Y%m%d_%H%M%S"), the clock counting the seconds
\* of one minute of one day
Stamp(t) == <<"2", "0", "2", "4", "0", "1", "0", "1", "_", "1", "2", "0", "0">>
            \o <<Digit(t \div 10), Digit(t % 10)>>

\* f"{timestamp}_{file.filename}"
TimestampedName(t, filename) == Stamp(t) \o <<"_">> \o filename

\* '_'.join(name.split('_')[2:]) if name.count('_') >= 2 else name
OriginalName(name) ==
    IF Count(name, "_") >= 2
    THEN LET parts == Split(name, <<"_">>)
         IN  Join(SubSeq(parts, 3, Len(parts)), <<"_">>)
    ELSE name

\* Path(DATA_DIR).glob("*.pdf")
PdfFiles(d) == {f \in d : EndsWith(f, DotPdf)}

(***************************************************************************)
(* document_loader.py.  A document is identified by the file it was read   *)
(* from (its file_name metadata); the loader either reads every PDF, finds *)
(* no page in any of them, or fails on one (the error propagates).         *)
(***************************************************************************)
load_documents(d) ==
    IF PdfFiles(d) = {}
    THEN {[raised |-> FALSE, documents |-> {}]}
    ELSE {[raised |-> FALSE, documents |-> PdfFiles(d)],
          [raised |-> FALSE, documents |-> {}],
          [raised |-> TRUE,  documents |-> {}]}

(***************************************************************************)
(* index_creator.py.  An index is its vector store (the documents it holds *)
(* vectors of) and its document store; origin tells a built index from a   *)
(* loaded one.                                                             *)
(***************************************************************************)
NoIndex == [origin |-> "none", vec |-> {}, docs |-> {}]

\* What a call went through: whether both artifacts existed, whether loading
\* them raised, whether the save failed, and the error that left the
\* function ("none", or the step that raised it)
NoCreate == [artifacts |-> FALSE, loadFailed |-> FALSE, persistFailed |-> FALSE,
             error |-> "none"]

\* os.path.exists(faiss.index) and os.path.exists(docstore.json)
ArtifactsExist(st) == st.faiss # <<>> /\ st.docstore # <<>>

\* faiss.read_index + StorageContext.from_defaults + load_index_from_storage
LoadedIndex(st) == [origin |-> "loaded", vec |-> st.faiss[1], docs |-> st.docstore[1]]

\* VectorStoreIndex.from_documents
BuiltIndex(documents) == [origin |-> "built", vec |-> documents, docs |-> documents]

\* The save of lines 73-80: faiss.write_index, then storage_context.persist.
\* It writes both artifacts, or it fails, which is logged and swallowed; a
\* failed save is taken to leave the storage directory as it was.
PersistOutcomes(index, st) ==
    {[storage |-> [faiss |-> <<index.vec>>, docstore |-> <<index.docs>>], failed |-> FALSE],
     [storage |-> st, failed |-> TRUE]}

\* Lines 53-82: the fresh build; loadFailed tells whether a load was tried
\* first.  from_documents raises (re-raised at line 86), or the index is
\* built, saved if possible, and returned.
FreshBuild(documents, st, loadFailed) ==
    LET trace == [NoCreate EXCEPT !.artifacts = ArtifactsExist(st),
                                  !.loadFailed = loadFailed]
    IN  {[raised |-> TRUE, index |-> NoIndex, storage |-> st,
          trace |-> [trace EXCEPT !.error = "build"]]}
        \cup
        {[raised |-> FALSE, index |-> BuiltIndex(documents), storage |-> p.storage,
          trace |-> [trace EXCEPT !.persistFailed = p.failed]]
            : p \in PersistOutcomes(BuiltIndex(documents), st)}

\* The error of the load, raised to the caller instead of being swallowed.
LoadErrorRaised(documents, st) ==
    {[raised |-> TRUE, index |-> NoIndex, storage |-> st,
      trace |-> [NoCreate EXCEPT !.artifacts = TRUE, !.loadFailed = TRUE,
                                 !.error = "load"]]}

\* Lines 49-51: "except Exception: log"; control falls through to the build.
LoadErrorHandler(documents, st) == FreshBuild(documents, st, TRUE)

\* The outcomes [raised, index, storage, trace]
create_index(documents, st) ==
    \* the LLM, the embedding model or os.makedirs fails: re-raised at line 86
    {[raised |-> TRUE, index |-> NoIndex, storage |-> st,
      trace |-> [NoCreate EXCEPT !.artifacts = ArtifactsExist(st), !.error = "setup"]]}
    \cup
    (IF ArtifactsExist(st)
     THEN {[raised |-> FALSE, index |-> LoadedIndex(st), storage |-> st,
            trace |-> [NoCreate EXCEPT !.artifacts = TRUE]]}
          \cup LoadErrorHandler(documents, st)
     ELSE FreshBuild(documents, st, FALSE))

(***************************************************************************)
(* main.py: initialize_rag_system.                                         *)
(***************************************************************************)
NoEngine == [present |-> FALSE, index |-> NoIndex]

\* QueryEngine(index)
QueryEngine(index) == [present |-> TRUE, index |-> index]

\* Lines 84-98 with the assignment of line 88 made before the constructor's
\* work is over: when it then raises, the global is already overwritten.
AssignEarly(ci, engine) ==
    IF ci.raised
    THEN {[ret |-> FALSE, engine |-> engine, storage |-> ci.storage, models |-> TRUE]}
    ELSE {[ret |-> FALSE, engine |-> QueryEngine(ci.index), storage |-> ci.storage,
           models |-> TRUE],
          [ret |-> TRUE, engine |-> QueryEngine(ci.index), storage |-> ci.storage,
           models |-> TRUE]}

\* Lines 84-102, from the return of create_index on: an error of
\* create_index, or of the constructor of QueryEngine (line 88, before the
\* global is assigned) ends in "return False" with the global as it was; the
\* test query's failure is logged and swallowed.
AssignEngine(ci, engine) ==
    IF ci.raised
    THEN {[ret |-> FALSE, engine |-> engine, storage |-> ci.storage, models |-> TRUE]}
    ELSE {[ret |-> FALSE, engine |-> engine, storage |-> ci.storage, models |-> TRUE],
          [ret |-> TRUE, engine |-> QueryEngine(ci.index), storage |-> ci.storage,
           models |-> TRUE]}

\* The outcomes [ret, engine, storage, models]: the value returned, the
\* global and the storage directory afterwards, and whether the embedding
\* model or the LLM was reached.
initialize_rag_system(d, st, engine) ==
    LET failed == [ret |-> FALSE, engine |-> engine, storage |-> st, models |-> FALSE]
    IN  IF PdfFiles(d) = {}
        THEN {failed}
        ELSE UNION {
               IF ld.raised \/ ld.documents = {}
               THEN {failed}
               ELSE UNION {AssignEngine(ci, engine) : ci \in create_index(ld.documents, st)}
                 : ld \in load_documents(d)}

\* What a handler records of its call of initialize_rag_system
NoInit == [called |-> FALSE, ret |-> FALSE, models |-> FALSE]
InitTrace(r) == [called |-> TRUE, ret |-> r.ret, models |-> r.models]

(***************************************************************************)
(* main.py: POST /upload/.                                                 *)
(***************************************************************************)
\* A test that never finds the earlier copy: the bare name against the
\* stamped one.
ExactName(filename, existing) == existing = filename

\* Line 157: "if file.filename in existing_file": a substring test of the
\* uploaded name in the name of a file of the directory.
IsOlderVersion(filename, existing) == Contains(filename, existing)

\* Lines 154-167 for one file: remove the matching files, write the new one.
\* ok: the file is saved.  Otherwise an error was raised (line 165): by
\* os.listdir or by os.remove after some of the matching files were removed
\* (os.listdir's order is arbitrary), by open (nothing written) or by the
\* copy (the file exists, truncated).
SaveFile(d, filename, t) ==
    LET matching == {e \in d : IsOlderVersion(filename, e)}
        new == TimestampedName(t, filename)
    IN  {[ok |-> TRUE, dir |-> (d \ matching) \cup {new}]}
        \cup {[ok |-> FALSE, dir |-> d \ R] : R \in SUBSET matching}
        \cup {[ok |-> FALSE, dir |-> (d \ matching) \cup {new}]}

\* The loop of lines 144-167 from file i on.  acc: the directory, the names
\* saved so far, per saved file the copies of its name right after its save,
\* the files removed, and the status of the HTTPException raised (0: none).
RECURSIVE UploadLoop(_, _, _, _)
UploadLoop(files, stamps, i, acc) ==
    IF i > Len(files) THEN {acc}
    ELSE IF ~EndsWith(files[i], DotPdf)
         THEN {[acc EXCEPT !.raised = 400]}
         ELSE UNION {
                LET gone == acc.removed \cup (acc.dir \ s.dir)
                IN  IF s.ok
                    THEN UploadLoop(files, stamps, i + 1,
                           [acc EXCEPT
                              !.dir = s.dir,
                              !.removed = gone,
                              !.uploaded = Append(@, TimestampedName(stamps[i], files[i])),
                              !.copies = Append(@, {f \in s.dir : OriginalName(f) = files[i]})])
                    ELSE {[acc EXCEPT !.dir = s.dir, !.removed = gone, !.raised = 500]}
                  : s \in SaveFile(acc.dir, files[i], stamps[i])}

\* Lines 179-181: "except Exception" around the whole body.  HTTPException
\* is an Exception, so the 400 of line 146 and the 500s of lines 167 and 177
\* are all caught here and answered as 500.
OuterExcept(status) == 500

\* The whole handler: the outcomes [status, dir, storage, engine, ...].
upload_documents(files, stamps, d, st, engine) ==
    LET start == [dir |-> d, uploaded |-> <<>>, copies |-> <<>>, removed |-> {},
                  raised |-> 0]
    IN  UNION {
          IF acc.raised # 0
          THEN {[status |-> OuterExcept(acc.raised), dir |-> acc.dir, storage |-> st,
                 engine |-> engine, uploaded |-> acc.uploaded, copies |-> acc.copies,
                 removed |-> acc.removed, init |-> NoInit]}
          ELSE {[status |-> IF r.ret THEN 200 ELSE OuterExcept(500),
                 dir |-> acc.dir, storage |-> r.storage, engine |-> r.engine,
                 uploaded |-> acc.uploaded, copies |-> acc.copies,
                 removed |-> acc.removed, init |-> InitTrace(r)]
                  : r \in initialize_rag_system(acc.dir, st, engine)}
            : acc \in UploadLoop(files, stamps, 1, start)}

(***************************************************************************)
(* main.py: POST /query/.  Two handlers are registered for the same path   *)
(* and method; the router serves the one registered first.                 *)
(***************************************************************************)
\* query_engine.query(question), seen from the handler: it raises, or it
\* returns an answer, which may be empty or say that the context lacks it.
EngineAnswers == {"raises", "answer", "empty", "not provided in the context"}

\* Lines 114-126
AnswerWith(engine, a, tr, st) ==
    [status |-> IF a = "raises" THEN 500 ELSE 200,
     answer |-> IF a = "raises" THEN "Error processing your query"
                ELSE IF a = "answer" THEN "answer" ELSE "I couldn't find",
     used |-> engine, engine |-> engine, storage |-> st, init |-> tr,
     attempts |-> IF tr.called THEN 1 ELSE 0, models |-> TRUE]

\* Lines 104-126: the handler registered first
query_documents_first(d, st, engine) ==
    IF ~engine.present
    THEN UNION {
           IF ~r.ret
           THEN {[status |-> 400, answer |-> "System not initialized", used |-> NoEngine,
                  engine |-> r.engine, storage |-> r.storage, init |-> InitTrace(r),
                  attempts |-> 1, models |-> r.models]}
           ELSE {AnswerWith(r.engine, a, InitTrace(r), r.storage) : a \in EngineAnswers}
             : r \in initialize_rag_system(d, st, engine)}
    ELSE {AnswerWith(engine, a, NoInit, st) : a \in EngineAnswers}

\* Lines 183-196: the handler registered second
query_documents_second(d, st, engine) ==
    IF ~engine.present
    THEN {[status |-> 400, answer |-> "System not initialized", used |-> NoEngine,
           engine |-> engine, storage |-> st, init |-> NoInit, attempts |-> 0,
           models |-> FALSE]}
    ELSE {[AnswerWith(engine, a, NoInit, st) EXCEPT
              !.answer = IF a = "raises" THEN "Error processing your query" ELSE a]
            : a \in EngineAnswers}

\* The router serving the handler registered last.
query_documents_last_registered(d, st, engine) == query_documents_second(d, st, engine)

\* @app.post("/query/") at line 104 comes before the one at line 183
query_documents(d, st, engine) == query_documents_first(d, st, engine)

(***************************************************************************)
(* main.py: GET /status/.                                                  *)
(***************************************************************************)
get_status(d, engine) ==
    [status |-> IF engine.present THEN "ready" ELSE "waiting_for_documents",
     documents_loaded |-> Cardinality(PdfFiles(d)),
     document_names |-> {OriginalName(f) : f \in PdfFiles(d)},
     system_initialized |-> engine.present]

(***************************************************************************)
(* query_engine.py: process_response.                                      *)
(***************************************************************************)
\* str.split() without arguments splits on runs of whitespace
IsSpace(c) == c \in {" ", "\n", "\t"}

\* text.split(): the maximal runs of characters that are not whitespace
Words(s) ==
    LET starts == Sorted({i \in 1..Len(s) :
                            ~IsSpace(s[i]) /\ (i = 1 \/ IsSpace(s[i - 1]))})
        EndOf(i) == CHOOSE j \in i..Len(s) :
                        /\ \A k \in i..j : ~IsSpace(s[k])
                        /\ (j = Len(s) \/ IsSpace(s[j + 1]))
    IN  [k \in 1..Len(starts) |-> SubSeq(s, starts[k], EndOf(starts[k]))]

\* ' '.join(text.split())
CollapseSpaces(s) == Join(Words(s), <<" ">>)

\* .replace('.', '. ').replace('!', '! ').replace('?', '? ')
SpaceAfterPunctuation(s) ==
    Concat([i \in 1..Len(s) |->
               IF s[i] \in {".", "!", "?"} THEN <<s[i], " ">> ELSE <<s[i]>>])

\* Lines 35 and 40: '. '.join(current_paragraph) + '.'
CloseParagraph(current) == Join(current, <<".", " ">>) \o <<".">>

\* Lines 29-40: paragraphs of three sentences, the rest in a last one
RECURSIVE Paragraphs(_, _)
Paragraphs(sentences, current) ==
    IF sentences = <<>>
    THEN (IF current # <<>> THEN <<CloseParagraph(current)>> ELSE <<>>)
    ELSE LET cur == Append(current, Head(sentences))
         IN  IF Len(cur) >= 3
             THEN <<CloseParagraph(cur)>> \o Paragraphs(Tail(sentences), <<>>)
             ELSE Paragraphs(Tail(sentences), cur)

process_response(response_text) ==
    LET cleaned == CollapseSpaces(SpaceAfterPunctuation(CollapseSpaces(response_text)))
        sentences == Split(cleaned, <<".", " ">>)
    IN  Join(Paragraphs(sentences, <<>>), <<"\n", "\n">>)

(***************************************************************************)
(* query_engine.py: QueryEngine.query.                                     *)
(***************************************************************************)
UpperCase == <<"A", "B", "C", "D", "E", "F", "G", "H", "I", "J", "K", "L", "M",
               "N", "O", "P", "Q", "R", "S", "T", "U", "V", "W", "X", "Y", "Z">>
LowerCase == <<"a", "b", "c", "d", "e", "f", "g", "h", "i", "j", "k", "l", "m",
               "n", "o", "p", "q", "r", "s", "t", "u", "v", "w", "x", "y", "z">>

\* str.lower
Lower(s) ==
    [i \in 1..Len(s) |->
        IF \E k \in 1..26 : UpperCase[k] = s[i]
        THEN LowerCase[CHOOSE k \in 1..26 : UpperCase[k] = s[i]]
        ELSE s[i]]

\* Line 51: the words that make a question a summary request
SummaryWords == {
    <<"s", "u", "m", "m", "a", "r", "y">>,
    <<"s", "u", "m", "m", "a", "r", "i", "z", "e">>,
    <<"w", "h", "a", "t", " ", "i", "s", " ", "t", "h", "i", "s", " ", "a",
      "b", "o", "u", "t">>,
    <<"w", "h", "a", "t", " ", "i", "s", " ", "i", "t", " ", "a", "b", "o",
      "u", "t">>}

\* Lines 64-68
SummaryPrompt ==
    <<"P", "r", "o", "v", "i", "d", "e", " ", "a", " ", "c", "l", "e", "a",
      "r", " ", "a", "n", "d", " ", "c", "o", "n", "c", "i", "s", "e", " ",
      "s", "u", "m", "m", "a", "r", "y", " ", "o", "f", " ", "t", "h", "e",
      " ", "l", "a", "t", "e", "s", "t", " ", "d", "o", "c", "u", "m", "e",
      "n", "t", ".", " ", "F", "o", "c", "u", "s", " ", "o", "n", " ", "t",
      "h", "e", " ", "m", "a", "i", "n", " ", "p", "o", "i", "n", "t", "s",
      " ", "a", "n", "d", " ", "k", "e", "y", " ", "i", "n", "s", "i", "g",
      "h", "t", "s", ".", " ", "F", "o", "r", "m", "a", "t", " ", "t", "h",
      "e", " ", "r", "e", "s", "p", "o", "n", "s", "e", " ", "i", "n", " ",
      "c", "l", "e", "a", "n", " ", "p", "a", "r", "a", "g", "r", "a", "p",
      "h", "s", " ", "w", "i", "t", "h", "o", "u", "t", " ", "b", "u", "l",
      "l", "e", "t", " ", "p", "o", "i", "n", "t", "s", " ", "o", "r", " ",
      "e", "x", "c", "e", "s", "s", "i", "v", "e", " ", "l", "i", "n", "e",
      " ", "b", "r", "e", "a", "k", "s", ".">>

\* Line 72
NoLatestDocument ==
    <<"I", " ", "c", "o", "u", "l", "d", "n", "'", "t", " ", "f", "i", "n",
      "d", " ", "t", "h", "e", " ", "l", "a", "t", "e", "s", "t", " ", "d",
      "o", "c", "u", "m", "e", "n", "t", " ", "t", "o", " ", "s", "u", "m",
      "m", "a", "r", "i", "z", "e", ".", " ", "P", "l", "e", "a", "s", "e",
      " ", "e", "n", "s", "u", "r", "e", " ", "d", "o", "c", "u", "m", "e",
      "n", "t", "s", " ", "a", "r", "e", " ", "p", "r", "o", "p", "e", "r",
      "l", "y", " ", "u", "p", "l", "o", "a", "d", "e", "d", ".">>

\* The test without str.lower: a question in capitals is not recognised.
IsSummaryRequestCaseSensitive(question) ==
    \E word \in SummaryWords : Contains(word, question)

\* Line 51: any(word in question.lower() for word in [...])
IsSummaryRequest(question) ==
    \E word \in SummaryWords : Contains(word, Lower(question))

\* Lines 45-82.  docs: the documents of the index's document store.
\* answer: what the underlying retrieval engine does with the prompt it is
\* given: <<>> when it raises, <<text>> when it answers text.
\* Yields the path taken, the prompts the underlying engine received, whether
\* an error propagated, and the text returned.
QueryEngine_query(question, docs, answer) ==
    LET summary == IsSummaryRequest(question)
        prompts == IF summary
                   THEN (IF docs # {} THEN <<SummaryPrompt>> ELSE <<>>)
                   ELSE <<question>>
        raised == prompts # <<>> /\ answer = <<>>
        response == IF prompts = <<>> THEN NoLatestDocument
                    ELSE IF raised THEN <<>> ELSE answer[1]
    IN  [path |-> IF summary THEN "summary" ELSE "direct",
         received |-> prompts,
         raised |-> raised,
         text |-> IF raised THEN <<>> ELSE process_response(response)]

(***************************************************************************)
(* The service: startup and the three endpoints, each one atomic step.     *)
(***************************************************************************)
NoStorage == [faiss |-> <<>>, docstore |-> <<>>]

\* The requests of length 1..MaxFiles
RECURSIVE SeqsUpTo(_, _)
SeqsUpTo(S, n) ==
    IF n = 0 THEN {<<>>}
    ELSE LET shorter == SeqsUpTo(S, n - 1)
         IN  shorter \cup {Append(q, x) : q \in {r \in shorter : Len(r) = n - 1}, x \in S}

Requests == {files \in SeqsUpTo(FileNames, MaxFiles) : Len(files) >= 1}

\* datetime.now() is read once per file: the stamps of a request do not decrease
StampsFor(files) ==
    {ts \in [1..Len(files) -> now..MaxClock] :
        \A i \in 1..(Len(files) - 1) : ts[i] <= ts[i + 1]}

\* The text a reply of the retrieval engine may be
TextAlphabet == {"a", ".", " ", "\n", "?"}
Texts == SeqsUpTo(TextAlphabet, MaxText)

\* The pieces questions are made of
Fragments == {
    <<"s", "u", "m", "m", "a", "r", "y">>,
    <<"S", "u", "m", "m", "a", "r", "i", "z", "e">>,
    <<"S", "U", "M", "M", "A", "R">>,
    <<"Y", " ", "o", "f", " ", "i", "t">>,
    <<"W", "h", "a", "t", " ", "i", "s", " ">>,
    <<"t", "h", "i", "s", " ", "a", "b", "o", "u", "t">>,
    <<"i", "t", " ", " ", "a", "b", "o", "u", "t">>,
    <<"t", "h", "e", " ", "t", "e", "r", "m", "i", "n", "a", "t", "i", "o", "n", " ", "c", "l", "a", "u", "s", "e", "?">>}

Questions == {Concat(parts) : parts \in {q \in SeqsUpTo(Fragments, MaxFragments) : Len(q) >= 1}}

\* The replies of the underlying retrieval engine: an error, or a text
Replies == {<<>>, <<<<"a", ".", " ", "a">>>>, <<<<"a", "?", "\n", "a", ".">>>>}

ServiceInit ==
    /\ dir = {}
    /\ storage = NoStorage
    /\ query_engine = NoEngine
    /\ now = 0
    /\ last = [op |-> "boot"]

IdleText == fmt = [stage |-> "idle"]
IdleQuery == qe = [stage |-> "idle"]
IdleIndex == build = [stage |-> "idle"]

\* The process ends and is started again: the module is imported anew, the
\* global is None (line 39); both directories are on disk and stay.
Restart ==
    /\ last.op # "boot"
    /\ query_engine' = NoEngine
    /\ last' = [op |-> "boot"]
    /\ UNCHANGED <<dir, storage, now, fmt, qe, build>>

\* startup_event (lines 128-134), before any request is served
Startup ==
    /\ last.op = "boot"
    /\ \E r \in initialize_rag_system(dir, storage, query_engine) :
          /\ query_engine' = r.engine
          /\ storage' = r.storage
          /\ last' = [op |-> "startup", init |-> InitTrace(r)]
    /\ UNCHANGED <<dir, now, fmt, qe, build>>

Upload ==
    /\ last.op # "boot"
    /\ \E files \in Requests : \E stamps \in StampsFor(files) :
       \E r \in upload_documents(files, stamps, dir, storage, query_engine) :
          /\ dir' = r.dir
          /\ storage' = r.storage
          /\ query_engine' = r.engine
          /\ now' = stamps[Len(stamps)]
          /\ last' = [op |-> "upload", files |-> files,
                      status |-> r.status, uploaded |-> r.uploaded,
                      copies |-> r.copies, removed |-> r.removed, init |-> r.init]
    /\ UNCHANGED <<fmt, qe, build>>

QueryRequest ==
    /\ last.op # "boot"
    /\ \E r \in query_documents(dir, storage, query_engine) :
          /\ storage' = r.storage
          /\ query_engine' = r.engine
          /\ last' = [op |-> "query", absent |-> ~query_engine.present,
                      status |-> r.status, answer |-> r.answer, used |-> r.used,
                      attempts |-> r.attempts, models |-> r.models, init |-> r.init]
    /\ UNCHANGED <<dir, now, fmt, qe, build>>

Status ==
    /\ last.op # "boot"
    /\ last' = [op |-> "status", status |-> 200,
                response |-> get_status(dir, query_engine)]
    /\ UNCHANGED <<dir, storage, query_engine, now, fmt, qe, build>>

Init == ServiceInit /\ IdleText /\ IdleQuery /\ IdleIndex

Next == Startup \/ Restart \/ Upload \/ QueryRequest \/ Status

Spec == Init /\ [][Next]_vars

(***************************************************************************)
(* process_response applied to a text, and to its own result.              *)
(***************************************************************************)
TextInit ==
    /\ ServiceInit /\ IdleQuery /\ IdleIndex
    /\ \E t \in Texts : fmt = [stage |-> "input", text |-> t]

Format ==
    /\ fmt.stage = "input"
    /\ fmt' = [stage |-> "once", text |-> fmt.text, once |-> process_response(fmt.text)]
    /\ UNCHANGED <<dir, storage, query_engine, now, last, qe, build>>

FormatAgain ==
    /\ fmt.stage = "once"
    /\ fmt' = [stage |-> "twice", text |-> fmt.text, once |-> fmt.once,
               twice |-> process_response(fmt.once)]
    /\ UNCHANGED <<dir, storage, query_engine, now, last, qe, build>>

TextNext == Format \/ FormatAgain

TextSpec == TextInit /\ [][TextNext]_vars

(***************************************************************************)
(* QueryEngine.query applied to a question.                                *)
(***************************************************************************)
QueryInit ==
    /\ ServiceInit /\ IdleText /\ IdleIndex
    /\ \E q \in Questions : \E docs \in {{}, {TimestampedName(0, A_PDF)}} :
          qe = [stage |-> "asked", question |-> q, docs |-> docs]

Ask ==
    /\ qe.stage = "asked"
    /\ \E answer \in Replies :
          qe' = [stage |-> "answered", question |-> qe.question, docs |-> qe.docs,
                 result |-> QueryEngine_query(qe.question, qe.docs, answer)]
    /\ UNCHANGED <<dir, storage, query_engine, now, last, fmt, build>>

QueryNext == Ask

QuerySpec == QueryInit /\ [][QueryNext]_vars

(***************************************************************************)
(* create_index applied to documents and a storage directory.              *)
(***************************************************************************)
\* The documents handed to create_index, and what the artifacts may hold
DocumentSets ==
    (SUBSET ({TimestampedName(t, A_PDF) : t \in 0..MaxClock} \cup {TimestampedName(0, BA_PDF)}))
      \ {{}}

Artifacts == {<<>>} \cup {<<docs>> : docs \in DocumentSets}

IndexInit ==
    /\ ServiceInit /\ IdleText /\ IdleQuery
    /\ \E documents \in DocumentSets : \E f \in Artifacts : \E ds \in Artifacts :
          build = [stage |-> "called", documents |-> documents,
                storage |-> [faiss |-> f, docstore |-> ds]]

CreateIndex ==
    /\ build.stage = "called"
    /\ \E r \in create_index(build.documents, build.storage) :
          build' = [stage |-> "returned", documents |-> build.documents,
                 before |-> build.storage, storage |-> r.storage,
                 raised |-> r.raised, index |-> r.index, trace |-> r.trace]
    /\ UNCHANGED <<dir, storage, query_engine, now, last, fmt, qe>>

IndexNext == CreateIndex

IndexSpec == IndexInit /\ [][IndexNext]_vars

(***************************************************************************)
(* The claims.                                                             *)
(***************************************************************************)
\* The first file of a request whose name does not end with ".pdf"
FirstNonPdf(files) ==
    CHOOSE i \in 1..Len(files) :
        /\ ~EndsWith(files[i], DotPdf)
        /\ \A j \in 1..(i - 1) : EndsWith(files[j], DotPdf)

C2_NonPdfAnswers400 ==
    (/\ last.op = "upload"
     /\ \E i \in 1..Len(last.files) : ~EndsWith(last.files[i], DotPdf)
     /\ Len(last.uploaded) = FirstNonPdf(last.files) - 1)
    => last.status = 400

\* C3: when the documents directory holds no PDF, /status reports no document
\* and no initialized system, and /query answers 400 without reaching a model.
C3_NoPdfNotReady ==
    PdfFiles(dir) = {} =>
        /\ get_status(dir, query_engine).documents_loaded = 0
        /\ ~get_status(dir, query_engine).system_initialized
        /\ \A r \in query_documents(dir, storage, query_engine) :
              r.status = 400 /\ ~r.models

\* C4: a query that finds no engine makes exactly one attempt to initialize;
\* if it succeeds the new engine answers, if it fails the answer is 400 and
\* no engine is asked.
C4_OneAttempt ==
    (last.op = "query" /\ last.absent) =>
        /\ last.attempts = 1
        /\ last.init.called
        /\ last.init.ret => (query_engine.present /\ last.used = query_engine)
        /\ ~last.init.ret =>
              (last.status = 400 /\ last.used = NoEngine /\ query_engine = NoEngine)

\* C4: a query found no engine, initialized the system and was answered.
C4_Witness ==
    /\ last.op = "query" /\ last.absent /\ last.init.ret
    /\ last.status = 200 /\ last.used.present

\* C5: a step that calls initialize_rag_system either gets True and leaves
\* the global at an engine over an index built from every document of the
\* directory or loaded from the two artifacts, or gets False and leaves the
\* global as it was.
C5_AllOrNothing ==
    [][(last'.op \in {"startup", "upload", "query"} /\ last'.init.called) =>
          IF last'.init.ret
          THEN /\ query_engine'.present
               /\ \/ query_engine'.index = BuiltIndex(PdfFiles(dir'))
                  \/ /\ ArtifactsExist(storage)
                     /\ query_engine'.index = LoadedIndex(storage)
          ELSE query_engine' = query_engine]_vars

\* C5: an upload whose initialization failed while an engine was in place.
C5_Witness ==
    /\ last.op = "upload" /\ last.init.called /\ ~last.init.ret
    /\ query_engine.present

\* C6: create_index never leaves with the error of a failed load: after one
\* it builds, and returns the index built from the documents unless the
\* build itself fails; a failed save does not fail the call either.
C6_LoadErrorFallsBack ==
    build.stage = "returned" =>
        /\ build.trace.error # "load"
        /\ build.trace.loadFailed =>
              /\ build.trace.artifacts
              /\ build.trace.error \in {"none", "build"}
              /\ ~build.raised => build.index = BuiltIndex(build.documents)
        /\ build.trace.persistFailed =>
              (~build.raised /\ build.index = BuiltIndex(build.documents))

\* C6: both artifacts existed, the load failed, the save failed too, and the
\* index built from the documents was returned.
C6_Witness ==
    /\ build.stage = "returned"
    /\ ArtifactsExist(build.before)
    /\ build.trace.loadFailed /\ build.trace.persistFailed
    /\ ~build.raised /\ build.index = BuiltIndex(build.documents)

\* C7: process_response applied to its own result gives that result.
C7_Idempotent == fmt.stage = "twice" => fmt.twice = fmt.once

\* C8: the summary path is taken exactly when the question in lower case
\* contains one of the four summary words; there the underlying engine gets
\* the summary prompt, or nothing when the document store is empty; on the
\* direct path it gets the question as it is.
C8_Routing ==
    qe.stage = "answered" =>
        LET keyword == \E w \in SummaryWords : Contains(w, Lower(qe.question))
        IN  /\ (qe.result.path = "summary") <=> keyword
            /\ (qe.result.path = "direct") <=> ~keyword
            /\ (keyword /\ qe.docs # {}) => qe.result.received = <<SummaryPrompt>>
            /\ (keyword /\ qe.docs = {}) => qe.result.received = <<>>
            /\ ~keyword => qe.result.received = <<qe.question>>

\* C8: a question with the summary word in capitals, over a document store
\* that is not empty, was given to the underlying engine as the summary prompt.
C8_Witness ==
    /\ qe.stage = "answered"
    /\ qe.result.path = "summary"
    /\ \A w \in SummaryWords : ~Contains(w, qe.question)
    /\ qe.docs # {}
    /\ qe.result.received = <<SummaryPrompt>>
    /\ ~qe.result.raised

\* C9: after an upload answered 200 the index of the engine holds the
\* documents of every PDF of the directory.
C9_UploadIndexesAll ==
    (last.op = "upload" /\ last.status = 200) =>
        /\ query_engine.present
        /\ query_engine.index.vec = PdfFiles(dir)
        /\ query_engine.index.docs = PdfFiles(dir)

\* C10: an upload that is answered 200 has removed only files whose original
\* name is the name of a file of the request.
C10_OtherNamesUntouched ==
    (last.op = "upload" /\ last.status = 200) =>
        \A f \in last.removed : OriginalName(f) \in Range(last.files)

====
